---- MODULE Spec2Model ----
(***************************************************************************)
(* The incremental search + highlight state machine of the terminal picker *)
(* (src/src/app.rs), driven by key events, over the static candidate list  *)
(* of src/src/backend.rs.                                                  *)
(*                                                                         *)
(* A Rust String is modelled as a sequence of one-character strings; the   *)
(* byte value of a character (used by String's Ord) is given by Byte.      *)
(***************************************************************************)
EXTENDS Integers, Sequences, FiniteSets, TLC

\* ------------------------------------------------------------------ bounds

\* Longest query the typed-character events build.
MaxQueryLen == 3

\* Largest highlight index a Next event is followed to (without overflow
\* checks the index climbs towards usize::MAX on an empty list).
MaxHighlight == 11

\* Bounds of the inputs of the filter step taken on its own (SpecFilter).
MaxStrLen == 2

MaxCandidates == 3

\* ------------------------------------------------------------- characters

\* Characters the Char(c) key events carry, besides the quit character.
TypedChars == {"p", "0", "q"}

\* Characters of the inputs of the filter step taken on its own.
FilterChars == {"a", "A"}

\* Byte value of the characters that occur (UTF-8, all ASCII).
Byte ==
    ("0" :> 48) @@ ("1" :> 49) @@ ("2" :> 50) @@ ("3" :> 51) @@ ("4" :> 52)
    @@ ("A" :> 65) @@ ("Q" :> 81) @@ ("_" :> 95) @@ ("a" :> 97) @@ ("b" :> 98)
    @@ ("c" :> 99) @@ ("d" :> 100) @@ ("e" :> 101) @@ ("g" :> 103)
    @@ ("h" :> 104) @@ ("i" :> 105) @@ ("j" :> 106) @@ ("l" :> 108)
    @@ ("m" :> 109) @@ ("n" :> 110) @@ ("o" :> 111) @@ ("p" :> 112)
    @@ ("q" :> 113) @@ ("r" :> 114) @@ ("s" :> 115) @@ ("t" :> 116)
    @@ ("v" :> 118) @@ ("x" :> 120) @@ ("y" :> 121)

\* usize::MAX. TLC's integers are 32 bits wide, so the largest of them stands
\* for 2^64 - 1; every other index of the model is far below it.
USIZE_MAX == 2147483647

\* ------------------------------------------------------------- backend.rs

\* backend::get_projects(): the static candidate list, in source order.
get_projects == <<
    <<"s","o","m","e","_","v","e","r","y","_","l","o","n","g","_","p","r","o","j","e","c","t","_","n","a","m","e">>,
    <<"s","o","m","e","_","o","t","h","e","r","_","l","o","n","g","_","p","r","o","j","e","c","t","_","n","a","m","e">>,
    <<"p","r","o","j","e","c","t","_","0","0","1">>,
    <<"p","r","o","j","e","c","t","_","0","0","2">>,
    <<"m","a","n","_","v","s","_","b","e","e">>,
    <<"p","i","p","e","l","i","n","e","_","t","e","s","t","i","n","g","_","2","0","2","2","_","2">>,
    <<"a","s","s","e","t","_","l","i","b","r","a","r","y","_","2","0","2","4">>,
    <<"a","s","s","e","t","_","l","i","b","r","a","r","y","_","2","0","2","3">>,
    <<"r","t","_","s","a","n","d","b","o","x","_","2","0","2","4">>,
    <<"r","n","d","_","s","a","n","d","b","o","x","_","2","0","2","4">> >>

\* ------------------------------------------------------- string operations

\* A plausible slip: str::starts_with in place of str::contains.
contains_prefix_only(s, q) ==
    Len(q) <= Len(s) /\ SubSeq(s, 1, Len(q)) = q

\* str::contains(pattern): scan the haystack left to right for the pattern.
RECURSIVE contains(_, _)
contains(s, q) ==
    IF Len(q) > Len(s) THEN FALSE
    ELSE IF SubSeq(s, 1, Len(q)) = q THEN TRUE
    ELSE contains(Tail(s), q)

\* <String as Ord>::cmp: lexicographic on bytes, a proper prefix is Less.
RECURSIVE cmp(_, _)
cmp(a, b) ==
    IF a = <<>> /\ b = <<>> THEN "Equal"
    ELSE IF a = <<>> THEN "Less"
    ELSE IF b = <<>> THEN "Greater"
    ELSE IF Byte[Head(a)] < Byte[Head(b)] THEN "Less"
    ELSE IF Byte[Head(a)] > Byte[Head(b)] THEN "Greater"
    ELSE cmp(Tail(a), Tail(b))

\* A plausible slip: the first match is skipped when the result is collected.
filter_skip_first(q, C) ==
    LET kept == SelectSeq(C, LAMBDA i : contains(i, q))
    IN  IF kept = <<>> THEN kept ELSE Tail(kept)

\* The filter step of App::search: all_items.iter().filter(contains).collect().
filter(q, C) == SelectSeq(C, LAMBDA i : contains(i, q))

\* slice::binary_search as the standard library computes it, with the
\* [left, right) midpoint loop (Rust 1.52 to 1.81). Indices are 0-based.
RECURSIVE binary_search_midpoint(_, _, _, _)
binary_search_midpoint(items, x, left, right) ==
    IF left >= right THEN [ok |-> FALSE, at |-> left]
    ELSE LET mid == left + ((right - left) \div 2)
             c   == cmp(items[mid + 1], x)
         IN  IF c = "Equal" THEN [ok |-> TRUE, at |-> mid]
             ELSE IF c = "Less"
                  THEN binary_search_midpoint(items, x, mid + 1, right)
                  ELSE binary_search_midpoint(items, x, left, mid)

\* The base/size halving loop of slice::binary_search (before Rust 1.52 and
\* from 1.82 on): the base index after the loop.
RECURSIVE binary_search_base(_, _, _, _)
binary_search_base(items, x, base, size) ==
    IF size <= 1 THEN base
    ELSE LET half == size \div 2
             mid  == base + half
         IN  binary_search_base(items, x,
                 IF cmp(items[mid + 1], x) = "Greater" THEN base ELSE mid,
                 size - half)

binary_search_halving(items, x) ==
    IF Len(items) = 0 THEN [ok |-> FALSE, at |-> 0]
    ELSE LET base == binary_search_base(items, x, 0, Len(items))
             c    == cmp(items[base + 1], x)
         IN  IF c = "Equal" THEN [ok |-> TRUE, at |-> base]
             ELSE [ok |-> FALSE, at |-> base + (IF c = "Less" THEN 1 ELSE 0)]

\* new_items.binary_search(&item) under the standard library the build links.
binary_search(impl, items, x) ==
    IF impl = "midpoint" THEN binary_search_midpoint(items, x, 0, Len(items))
    ELSE binary_search_halving(items, x)

\* usize::saturating_add, usize::saturating_sub.
saturating_add(a, b) == IF a > USIZE_MAX - b THEN USIZE_MAX ELSE a + b

saturating_sub(a, b) == IF a < b THEN 0 ELSE a - b

\* a - b on usize without overflow checks: wraps modulo the width.
wrapping_sub(a, b) == IF a >= b THEN a - b ELSE USIZE_MAX - (b - a) + 1

Min(a, b) == IF a <= b THEN a ELSE b

Max(a, b) == IF a >= b THEN a ELSE b

\* ------------------------------------------------------------------ state

VARIABLES
    search_text,             \* App.search_text
    search_items,            \* App.search_items
    highlighted_item_index,  \* App.highlighted_item_index
    should_exit,             \* App.should_exit
    pc,                      \* where App::run is: "loop", "returned", "failed", "panicked"
    result,                  \* the Ok value App::run returned, <<"none">> before
    last_event,              \* the event the last loop iteration read
    fetched,                 \* did that iteration call backend::get_projects()
    overflow_checks,         \* the build: are arithmetic overflow checks on
    bsearch_impl,            \* the build: which slice::binary_search it links
    f_query,                 \* the filter step on its own: its query
    f_candidates,            \*   its candidate list
    f_result,                \*   its result
    f_done,                  \*   has it run
    f_again,                 \*   the filter of its result by the same query
    f_again_done             \*   has that second pass run

app_vars == <<search_text, search_items, highlighted_item_index, should_exit>>

run_vars == <<pc, result, last_event, fetched>>

build_vars == <<overflow_checks, bsearch_impl>>

filter_vars ==
    <<f_query, f_candidates, f_result, f_done, f_again, f_again_done>>

vars == <<app_vars, run_vars, build_vars, filter_vars>>

NoResult == <<"none">>

\* ------------------------------------------------------------------ app.rs

\* App::search: the new filtered list and the highlight index it leaves.
search(impl, text, items, index) ==
    LET all_items == get_projects
        has_item  == index < Len(items)
        new_items == filter(text, all_items)
        found     == binary_search(impl, new_items, items[index + 1])
    IN  [ new_items |-> new_items,
          highlighted_item_index |->
              IF has_item
              THEN (IF found.ok THEN found.at ELSE 0)
              ELSE index ]

\* App::default() (derived Default), the state main runs the loop from.
AppDefault ==
    /\ search_text = <<>>
    /\ search_items = <<>>
    /\ highlighted_item_index = 0
    /\ should_exit = FALSE

\* The filter-step variables, idle in the specification of the application.
FilterIdle ==
    /\ f_query = <<>>
    /\ f_candidates = <<>>
    /\ f_result = <<>>
    /\ f_done = FALSE
    /\ f_again = <<>>
    /\ f_again_done = FALSE

Init ==
    /\ AppDefault
    /\ pc = "loop"
    /\ result = NoResult
    /\ last_event = "None"
    /\ fetched = FALSE
    /\ overflow_checks \in BOOLEAN
    /\ bsearch_impl \in {"midpoint", "halving"}
    /\ FilterIdle

\* One iteration of the while loop of App::run is entered.
Iterating == pc = "loop" /\ ~should_exit

\* A plausible slip: the Char(char) arm comes first and shadows the quit arm,
\* so 'Q' is typed into the query like any character.
KeyQuit_shadowed ==
    /\ pc = "loop" /\ ~should_exit
    /\ Len(search_text) < MaxQueryLen
    /\ search_text' = Append(search_text, "Q")
    /\ search_items' = filter(search_text', get_projects)
    /\ last_event' = "Q"
    /\ fetched' = TRUE
    /\ UNCHANGED <<highlighted_item_index, should_exit>>
    /\ UNCHANGED <<pc, result, build_vars, filter_vars>>

\* KeyCode::Char('Q') => self.exit()
KeyQuit ==
    /\ Iterating
    /\ should_exit' = TRUE
    /\ last_event' = "Q"
    /\ fetched' = FALSE
    /\ UNCHANGED <<search_text, search_items, highlighted_item_index>>
    /\ UNCHANGED <<pc, result, build_vars, filter_vars>>

\* String::pop: drop the last character, if any.
pop(s) == IF s = <<>> THEN s ELSE SubSeq(s, 1, Len(s) - 1)

\* A plausible slip: the character is inserted at the front.
push_front(s, c) == <<c>> \o s

\* String::push
push(s, c) == Append(s, c)

\* A plausible slip: Backspace runs search() whatever the query has become.
KeyBackspace_always_search ==
    /\ pc = "loop" /\ ~should_exit
    /\ LET text == pop(search_text)
           s    == search(bsearch_impl, text, search_items,
                          highlighted_item_index)
       IN  /\ search_text' = text
           /\ search_items' = s.new_items
           /\ highlighted_item_index' = s.highlighted_item_index
    /\ last_event' = "Backspace"
    /\ fetched' = TRUE
    /\ UNCHANGED <<should_exit, pc, result, build_vars, filter_vars>>

\* A plausible slip: Backspace returns early when the query is already empty.
KeyBackspace_noop_on_empty ==
    /\ pc = "loop" /\ ~should_exit
    /\ LET text == pop(search_text)
       IN  /\ search_text' = text
           /\ IF search_text = <<>>
              THEN UNCHANGED <<search_items, highlighted_item_index>>
              ELSE IF text = <<>>
              THEN /\ search_items' = get_projects
                   /\ UNCHANGED highlighted_item_index
              ELSE LET s == search(bsearch_impl, text, search_items,
                                   highlighted_item_index)
                   IN  /\ search_items' = s.new_items
                       /\ highlighted_item_index' = s.highlighted_item_index
    /\ last_event' = "Backspace"
    /\ fetched' = (search_text # <<>>)
    /\ UNCHANGED <<should_exit, pc, result, build_vars, filter_vars>>

\* KeyCode::Backspace
KeyBackspace ==
    /\ Iterating
    /\ LET text == pop(search_text)
       IN  /\ search_text' = text
           /\ IF text = <<>>
              THEN /\ search_items' = get_projects
                   /\ UNCHANGED highlighted_item_index
              ELSE LET s == search(bsearch_impl, text, search_items,
                                   highlighted_item_index)
                   IN  /\ search_items' = s.new_items
                       /\ highlighted_item_index' = s.highlighted_item_index
    /\ last_event' = "Backspace"
    /\ fetched' = TRUE
    /\ UNCHANGED <<should_exit, pc, result, build_vars, filter_vars>>

\* A plausible slip: lowercase 'q' quits too (as tests::test_handle_exit
\* expects) instead of being typed.
KeyChar_q_exits(c) ==
    /\ pc = "loop" /\ ~should_exit
    /\ Len(search_text) < MaxQueryLen
    /\ last_event' = c
    /\ IF c = "q"
       THEN /\ should_exit' = TRUE
            /\ fetched' = FALSE
            /\ UNCHANGED <<search_text, search_items, highlighted_item_index>>
       ELSE LET text == Append(search_text, c)
                s    == search(bsearch_impl, text, search_items,
                               highlighted_item_index)
            IN  /\ search_text' = text
                /\ search_items' = s.new_items
                /\ highlighted_item_index' = s.highlighted_item_index
                /\ fetched' = TRUE
                /\ UNCHANGED should_exit
    /\ UNCHANGED <<pc, result, build_vars, filter_vars>>

\* KeyCode::Char(char), any character but 'Q'
KeyChar(c) ==
    /\ Iterating
    /\ Len(search_text) < MaxQueryLen
    /\ LET text == push(search_text, c)
           s    == search(bsearch_impl, text, search_items,
                          highlighted_item_index)
       IN  /\ search_text' = text
           /\ search_items' = s.new_items
           /\ highlighted_item_index' = s.highlighted_item_index
    /\ last_event' = c
    /\ fetched' = TRUE
    /\ UNCHANGED <<should_exit, pc, result, build_vars, filter_vars>>

\* A plausible slip: the index wraps to the first item past the last one.
next_index_wrapping(index, len) ==
    IF len = 0 THEN 0 ELSE (index + 1) % len

\* saturating_add(1).min(len - 1), len - 1 without overflow checks.
next_index(index, len) == Min(saturating_add(index, 1), wrapping_sub(len, 1))

\* saturating_sub(1).max(0)
previous_index(index) == Max(saturating_sub(index, 1), 0)

\* KeyCode::Tab | KeyCode::Down
KeyNext(k) ==
    /\ Iterating
    /\ last_event' = k
    /\ fetched' = FALSE
    /\ IF Len(search_items) = 0 /\ overflow_checks
       THEN \* len() - 1 panics: attempt to subtract with overflow
            /\ pc' = "panicked"
            /\ UNCHANGED highlighted_item_index
       ELSE /\ next_index(highlighted_item_index, Len(search_items)) <= MaxHighlight
            /\ highlighted_item_index' =
                   next_index(highlighted_item_index, Len(search_items))
            /\ UNCHANGED pc
    /\ UNCHANGED <<search_text, search_items, should_exit>>
    /\ UNCHANGED <<result, build_vars, filter_vars>>

\* A plausible slip: the list is fetched and filtered again after the move.
KeyPrevious_refetch(k) ==
    /\ pc = "loop" /\ ~should_exit
    /\ last_event' = k
    /\ fetched' = TRUE
    /\ highlighted_item_index' = Max(saturating_sub(highlighted_item_index, 1), 0)
    /\ search_items' = filter(search_text, get_projects)
    /\ UNCHANGED <<search_text, should_exit>>
    /\ UNCHANGED <<pc, result, build_vars, filter_vars>>

\* KeyCode::BackTab | KeyCode::Up
KeyPrevious(k) ==
    /\ Iterating
    /\ last_event' = k
    /\ fetched' = FALSE
    /\ highlighted_item_index' = previous_index(highlighted_item_index)
    /\ UNCHANGED <<search_text, search_items, should_exit>>
    /\ UNCHANGED <<pc, result, build_vars, filter_vars>>

\* A plausible slip: Enter already moves on to the next stage and puts the
\* highlight back on the first item.
KeyEnter_next_stage ==
    /\ pc = "loop" /\ ~should_exit
    /\ last_event' = "Enter"
    /\ fetched' = FALSE
    /\ highlighted_item_index' = 0
    /\ UNCHANGED <<search_text, search_items, should_exit>>
    /\ UNCHANGED <<pc, result, build_vars, filter_vars>>

\* KeyCode::Enter => {}
KeyEnter ==
    /\ Iterating
    /\ last_event' = "Enter"
    /\ fetched' = FALSE
    /\ UNCHANGED <<app_vars, pc, result, build_vars, filter_vars>>

\* _ => {} : any other key code
KeyOther ==
    /\ Iterating
    /\ last_event' = "Other"
    /\ fetched' = FALSE
    /\ UNCHANGED <<app_vars, pc, result, build_vars, filter_vars>>

\* A plausible slip: the kind == Press guard is missing, so the release of a
\* Backspace key is handled like its press.
NonPressEvent_as_press ==
    /\ pc = "loop" /\ ~should_exit
    /\ search_text' = pop(search_text)
    /\ search_items' = filter(search_text', get_projects)
    /\ last_event' = "NonPress"
    /\ fetched' = TRUE
    /\ UNCHANGED <<highlighted_item_index, should_exit>>
    /\ UNCHANGED <<pc, result, build_vars, filter_vars>>

\* handle_events: an event that is not a key press is dropped.
NonPressEvent ==
    /\ Iterating
    /\ last_event' = "NonPress"
    /\ fetched' = FALSE
    /\ UNCHANGED <<app_vars, pc, result, build_vars, filter_vars>>

\* App::run: terminal.draw(..)? fails and run returns the error.
DrawFails ==
    /\ Iterating
    /\ pc' = "failed"
    /\ last_event' = "DrawError"
    /\ fetched' = FALSE
    /\ UNCHANGED <<app_vars, result, build_vars, filter_vars>>

\* A plausible slip: the read error is swallowed and the loop goes on.
ReadFails_continues ==
    /\ pc = "loop" /\ ~should_exit
    /\ last_event' = "ReadError"
    /\ fetched' = FALSE
    /\ UNCHANGED <<app_vars, pc, result, build_vars, filter_vars>>

\* handle_events: event::read()? fails and run returns the wrapped error.
ReadFails ==
    /\ Iterating
    /\ pc' = "failed"
    /\ last_event' = "ReadError"
    /\ fetched' = FALSE
    /\ UNCHANGED <<app_vars, result, build_vars, filter_vars>>

\* A plausible slip: run returns a fresh String instead of the query.
Return_default ==
    /\ pc = "loop"
    /\ should_exit
    /\ pc' = "returned"
    /\ result' = <<>>
    /\ UNCHANGED <<app_vars, last_event, fetched, build_vars, filter_vars>>

\* App::run: the loop condition fails, Ok(self.search_text.clone()).
Return ==
    /\ pc = "loop"
    /\ should_exit
    /\ pc' = "returned"
    /\ result' = search_text
    /\ UNCHANGED <<app_vars, last_event, fetched, build_vars, filter_vars>>

Next ==
    \/ KeyQuit
    \/ KeyBackspace
    \/ \E c \in TypedChars : KeyChar(c)
    \/ \E k \in {"Tab", "Down"} : KeyNext(k)
    \/ \E k \in {"BackTab", "Up"} : KeyPrevious(k)
    \/ KeyEnter
    \/ KeyOther
    \/ NonPressEvent
    \/ DrawFails
    \/ ReadFails
    \/ Return

Spec == Init /\ [][Next]_vars

\* --------------------------------------------- the filter step on its own

\* The strings over FilterChars of at most MaxStrLen characters.
FilterStrings ==
    UNION { [1..n -> FilterChars] : n \in 0..MaxStrLen }

\* The candidate lists of at most MaxCandidates such strings.
FilterLists ==
    UNION { [1..n -> FilterStrings] : n \in 0..MaxCandidates }

\* The application is not running; only the filter inputs vary.
AppIdle ==
    /\ AppDefault
    /\ pc = "loop"
    /\ result = NoResult
    /\ last_event = "None"
    /\ fetched = FALSE
    /\ overflow_checks = FALSE
    /\ bsearch_impl = "midpoint"

InitFilter ==
    /\ AppIdle
    /\ f_query \in FilterStrings
    /\ f_candidates \in FilterLists
    /\ f_result = <<>>
    /\ f_done = FALSE
    /\ f_again = <<>>
    /\ f_again_done = FALSE

\* The filter step of App::search applied to the drawn query and candidates.
FilterStep ==
    /\ ~f_done
    /\ f_result' = filter(f_query, f_candidates)
    /\ f_done' = TRUE
    /\ UNCHANGED <<f_query, f_candidates, f_again, f_again_done>>
    /\ UNCHANGED <<app_vars, run_vars, build_vars>>

\* The same filter step applied to its own result, with the same query.
FilterAgain ==
    /\ f_done
    /\ ~f_again_done
    /\ f_again' = filter(f_query, f_result)
    /\ f_again_done' = TRUE
    /\ UNCHANGED <<f_query, f_candidates, f_result, f_done>>
    /\ UNCHANGED <<app_vars, run_vars, build_vars>>

NextFilter ==
    \/ FilterStep
    \/ FilterAgain

SpecFilter == InitFilter /\ [][NextFilter]_vars

\* ------------------------------------------------------------- properties

NextKeys == {"Tab", "Down"}

PreviousKeys == {"BackTab", "Up"}

\* The highlight index points into the filtered list.
InBounds(index, items) == index < Len(items)

\* q occurs in s as a contiguous run of equal characters.
IsSubstring(q, s) ==
    \E i \in 0..Len(s) :
        /\ i + Len(q) <= Len(s)
        /\ \A k \in 1..Len(q) : s[i + k] = q[k]

\* r is C with some positions dropped: a strictly increasing choice of
\* positions of C spells r.
IsSubsequence(r, C) ==
    /\ Len(r) <= Len(C)
    /\ \E f \in [1..Len(r) -> 1..Len(C)] :
           /\ \A i \in 1..Len(r) : r[i] = C[f[i]]
           /\ \A i, j \in 1..Len(r) : i < j => f[i] < f[j]

\* C1: after any sequence of key events the highlight index is in bounds of
\* the filtered list, and is 0 when the filtered list is empty.
C1_HighlightInBounds ==
    IF search_items = <<>>
    THEN highlighted_item_index = 0
    ELSE highlighted_item_index \in 0..(Len(search_items) - 1)

\* C2: a Next or Previous event handled on an empty filtered list does not
\* fault and leaves the highlight index at 0.
C2_EmptyListNavigationSafe ==
    (search_items = <<>> /\ last_event \in NextKeys \cup PreviousKeys)
        => (pc # "panicked" /\ highlighted_item_index = 0)

\* A step that changes the query and runs the reconciliation of search().
QueryChangeStep ==
    /\ search_text' # search_text
    /\ search_text' # <<>>

\* C3: reconciliation stability. A query-changing event handled with the
\* highlight in bounds, whose highlighted string is still in the recomputed
\* list, leaves the highlight on that same string.
C3_ReconciliationStable ==
    [][ ( /\ QueryChangeStep
          /\ InBounds(highlighted_item_index, search_items)
          /\ \E j \in 1..Len(search_items') :
                 search_items'[j] = search_items[highlighted_item_index + 1] )
        => ( /\ InBounds(highlighted_item_index', search_items')
             /\ search_items'[highlighted_item_index' + 1]
                    = search_items[highlighted_item_index + 1] ) ]_vars

\* C4: in every reachable state, the initial one included, the filtered list
\* is the candidates that contain the query, in candidate order.
C4_ItemsAreFilterOfQuery ==
    search_items = filter(search_text, get_projects)

\* C5: the filter step returns a subsequence of the candidates, every item of
\* which contains the query (case-sensitively), and no candidate that
\* contains the query is left out.
C5_FilterIsMatchingSubsequence ==
    f_done =>
        /\ IsSubsequence(f_result, f_candidates)
        /\ \A i \in 1..Len(f_result) : IsSubstring(f_query, f_result[i])
        /\ Len(f_result) =
               Cardinality({ i \in 1..Len(f_candidates) :
                               IsSubstring(f_query, f_candidates[i]) })

\* The filter ran on a list where it keeps an item that contains the query
\* past its first character, keeps a duplicate, and drops an item.
C5_Witness ==
    /\ f_done
    /\ f_query = <<"a">>
    /\ f_candidates = << <<"A", "a">>, <<"A">>, <<"A", "a">> >>
    /\ f_result = << <<"A", "a">>, <<"A", "a">> >>

\* C6 as stated: a Backspace that makes the query empty leaves the full
\* candidate list and the highlight index 0. Stated for the build with
\* overflow checks, where no earlier event has put the index out of bounds.
C6_BackspaceToEmptyResetsIndex ==
    [][ (pc = "loop" /\ ~should_exit /\ overflow_checks
            /\ search_text # <<>>
            /\ last_event' = "Backspace" /\ search_text' = <<>>)
        => ( /\ search_items' = get_projects
             /\ highlighted_item_index' = 0 ) ]_vars

\* C6, amended: a Backspace that makes the query empty leaves the full
\* candidate list and the highlight index as it was before the event.
C6_BackspaceToEmptyKeepsIndex ==
    [][ (pc = "loop" /\ ~should_exit
            /\ last_event' = "Backspace" /\ search_text' = <<>>)
        => ( /\ search_items' = get_projects
             /\ highlighted_item_index' = highlighted_item_index
             /\ pc' = "loop" ) ]_vars

\* A Backspace emptied the query with the highlight on a later item.
C6_Witness ==
    /\ last_event = "Backspace"
    /\ search_text = <<>>
    /\ search_items = get_projects
    /\ highlighted_item_index = 3

\* C7: the quit key leaves the query as it is and sets the exit flag; run
\* then handles no further event and returns the query as it was when the
\* quit key was pressed.
C7_QuitReturnsQuery ==
    [][ /\ (pc = "loop" /\ ~should_exit /\ last_event' = "Q")
            => (should_exit' /\ search_text' = search_text /\ pc' = "loop")
        /\ (pc = "loop" /\ should_exit)
            => (pc' = "returned" /\ result' = search_text
                    /\ UNCHANGED <<app_vars, last_event>>)
        /\ (pc = "returned")
            => UNCHANGED <<app_vars, run_vars>> ]_vars

\* run returned a non-empty query after the quit key.
C7_Witness ==
    /\ pc = "returned"
    /\ last_event = "Q"
    /\ should_exit
    /\ result = <<"p", "0">>
    /\ search_text = <<"p", "0">>

\* C8: handling the key press of lowercase 'q' sets the exit flag.
C8_LowercaseQQuits ==
    last_event = "q" => should_exit

\* C9: handling a character key other than the quit key appends that
\* character at the end of the query.
C9_CharAppends ==
    [][ \A c \in TypedChars :
            (pc = "loop" /\ ~should_exit /\ last_event' = c)
                => search_text' = search_text \o <<c>> ]_vars

\* Three different characters were typed from the empty query, in order.
C9_Witness ==
    /\ last_event = "0"
    /\ search_text = <<"p", "q", "0">>

\* C10: on a non-empty filtered list with the highlight in bounds, Next sets
\* the index to min(i + 1, n - 1) and Previous to max(i - 1, 0); the index
\* stays in [0, n - 1].
C10_MoveSaturates ==
    [][ ( /\ pc = "loop" /\ ~should_exit
          /\ Len(search_items) >= 1
          /\ InBounds(highlighted_item_index, search_items) )
        => LET i == highlighted_item_index
               n == Len(search_items)
           IN  /\ last_event' \in NextKeys =>
                   /\ highlighted_item_index' = (IF i + 1 <= n - 1 THEN i + 1 ELSE n - 1)
                   /\ pc' = "loop"
               /\ last_event' \in PreviousKeys =>
                   highlighted_item_index' = (IF i - 1 >= 0 THEN i - 1 ELSE 0)
               /\ last_event' \in NextKeys \cup PreviousKeys =>
                   /\ highlighted_item_index' \in 0..(n - 1)
                   /\ search_items' = search_items ]_vars

\* Next was handled with the highlight on the last of several items.
C10_Witness ==
    /\ last_event = "Tab"
    /\ Len(search_items) = 5
    /\ highlighted_item_index = 4

\* C11: the state the event loop starts in has an empty query, the full
\* candidate list as filtered list, highlight index 0 and exit flag false.
C11_StartsWithFullList ==
    (pc = "loop" /\ last_event = "None")
        => ( /\ search_text = <<>>
             /\ search_items = get_projects
             /\ highlighted_item_index = 0
             /\ should_exit = FALSE )

\* C12: after a query-changing event that runs the reconciliation, the
\* highlight index is 0 if the previously highlighted string is not in the
\* new list or if there was no highlighted string (index out of bounds of
\* the old list, the empty list included).
C12_FallbackToZero ==
    [][ ( /\ QueryChangeStep
          /\ \/ ~InBounds(highlighted_item_index, search_items)
             \/ \A j \in 1..Len(search_items') :
                    search_items'[j] # search_items[highlighted_item_index + 1] )
        => highlighted_item_index' = 0 ]_vars

\* C13: Enter, and any key that no other arm handles, leave query, filtered
\* list, highlight index and exit flag as they are.
C13_EnterAndOtherKeysAreNoOps ==
    [][ (pc = "loop" /\ ~should_exit /\ last_event' \in {"Enter", "Other"})
        => (UNCHANGED app_vars /\ pc' = "loop" /\ result' = result) ]_vars

\* Enter was handled with a query typed and the highlight moved.
C13_Witness ==
    /\ last_event = "Enter"
    /\ search_text = <<"p">>
    /\ highlighted_item_index = 2
    /\ pc = "loop"

C16_FilterIdempotent ==
    f_again_done => f_again = f_result

\* The second pass ran on a result that kept some candidates and dropped one.
C16_Witness ==
    /\ f_again_done
    /\ f_query = <<"A">>
    /\ f_candidates = << <<"a", "A">>, <<"a">>, <<"A">> >>
    /\ f_again = << <<"a", "A">>, <<"A">> >>

\* C17: a Next or Previous event leaves the query, the filtered list and the
\* exit flag as they are and does not call the candidate source.
C17_MoveChangesOnlyIndex ==
    [][ (pc = "loop" /\ ~should_exit
            /\ last_event' \in NextKeys \cup PreviousKeys)
        => ( /\ UNCHANGED <<search_text, search_items, should_exit>>
             /\ fetched' = FALSE
             /\ result' = result ) ]_vars

\* Previous was handled and moved the highlight back on a filtered list.
C17_Witness ==
    /\ last_event = "Up"
    /\ search_text = <<"0">>
    /\ Len(search_items) = 7
    /\ highlighted_item_index = 2

\* C18: the query never contains the quit character 'Q'.
C18_NoQuitCharInQuery ==
    \A i \in 1..Len(search_text) : search_text[i] # "Q"

\* The quit character was pressed on a non-empty query and was not typed.
C18_Witness ==
    /\ last_event = "Q"
    /\ should_exit
    /\ pc = "loop"
    /\ search_text = <<"p", "q">>

\* C19: an event that is not a key press leaves the application state as it
\* is and the loop goes on.
C19_NonPressIgnored ==
    [][ (pc = "loop" /\ ~should_exit /\ last_event' = "NonPress")
        => (UNCHANGED app_vars /\ pc' = "loop" /\ result' = result
                /\ fetched' = FALSE) ]_vars

\* A non-press event was dropped with a query typed.
C19_Witness ==
    /\ last_event = "NonPress"
    /\ search_text = <<"p", "0">>
    /\ pc = "loop"
    /\ ~should_exit

\* C20: a Backspace handled on an empty query does not fault, leaves the
\* query empty and the highlight index and exit flag unchanged, and sets the
\* filtered list to the full candidate list.
C20_BackspaceOnEmptyQuery ==
    [][ (pc = "loop" /\ ~should_exit /\ search_text = <<>>
            /\ last_event' = "Backspace")
        => ( /\ search_text' = <<>>
             /\ search_items' = get_projects
             /\ highlighted_item_index' = highlighted_item_index
             /\ should_exit' = should_exit
             /\ pc' = "loop" ) ]_vars

\* Backspace was the first key: the empty start list became the full list.
C20_Witness ==
    /\ last_event = "Backspace"
    /\ search_text = <<>>
    /\ search_items = get_projects
    /\ highlighted_item_index = 0
    /\ pc = "loop"
    /\ ~should_exit

====
